---- MODULE Spec2Model ----
(***************************************************************************)
(* Campaign dispatch pipeline of campaign-messaging-backend:               *)
(*   - the send orchestrator  (campaignService.SendCampaign),              *)
(*   - the job queue and its bounded-concurrency consumer                  *)
(*     (redisClient.Publish / redisClient.Consume),                        *)
(*   - the message processor  (MessageProcessor.Process, handleSuccess,    *)
(*     handleFailure, updateCampaignStatusIfComplete),                     *)
(* over the message store (campaigns, customers, outbound_messages).       *)
(*                                                                         *)
(* Every store or queue call is one atomic step; a handler is split at     *)
(* each of its store calls, so that all interleavings of concurrent        *)
(* requests and concurrent handlers are explored.                          *)
(***************************************************************************)
EXTENDS Integers, Sequences, FiniteSets, Bags, TLC

VARIABLES
    cstatus,        \* campaigns.status, per existing campaign
    msgs,           \* outbound_messages: sequence of rows, id = index
    queue,          \* the Redis list, in arrival order (head = next BRPOP)
    sends,          \* the SendCampaign calls (HTTP requests), by call number
    cons,           \* the Consume loop
    handlers,       \* the handler goroutines in flight: a bag of Process calls
    lastResult,     \* what the Process call that returned last returned
    ctxDone,        \* the consumer's context has been cancelled
    faults,         \* store / queue failures the environment may still inject
    requeues,       \* manual re-enqueues the operator may still perform
    requests,       \* the send requests clients may issue: <<campaign id, customer ids>>
    maxRetries,     \* MessageProcessor.maxRetries   (MAX_RETRY_COUNT)
    concurrencyCfg, \* the concurrency argument of Consume (WORKER_CONCURRENCY)
    call            \* a call of a stateless operation (Render, List) and its result

vars == <<cstatus, msgs, queue, sends, cons, handlers, lastResult, ctxDone, faults,
          requeues, requests, maxRetries, concurrencyCfg, call>>

----------------------------------------------------------------------------
(* Bounds of the model *)

MaxSends == 2
MaxRequeues == 2
MaxFaults == 1
MaxJobs == 7
ScenarioMessages == 5
MaxTemplateLen == 2
MaxTotal == 9
QueueJobs == 3
IsolationMessages == 3

(* Program constants *)

MaxConcurrency == 5
DefaultMaxRetryCount == 3
DefaultPageSize == 20
MaxPageSize == 100
IntBits == 64

(* Inputs *)

Campaigns == {1}
Customers == {1, 2}
PipelineRequests == {<<1, <<1>> >>, <<1, <<1, 2>> >>}
(* Requests to SendCampaign alone: campaign 2 and customer 9 do not exist, *)
(* and a recipient list may name a customer twice.                        *)
SendRequests ==
    {<<1, <<>> >>, <<2, <<>> >>, <<2, <<1>> >>, <<1, <<9>> >>, <<1, <<9, 1>> >>,
     <<1, <<1, 9, 2>> >>, <<1, <<2, 2>> >>}
MaxRetryInputs == {2, DefaultMaxRetryCount}
PipelineConcurrencyInputs == {2}
ConsumerConcurrencyInputs == (0 - 1) .. (MaxConcurrency + 2)
ScenarioConcurrencyInputs == {2, MaxConcurrency}

(* What the environment does in one run of the pipeline, while the store   *)
(* and the queue may fail: clients send a campaign more than once, or the  *)
(* operator re-enqueues failed messages of a campaign sent once.           *)
Budgets ==
    {[sends |-> MaxSends, requeues |-> 0], [sends |-> 1, requeues |-> MaxRequeues]}

----------------------------------------------------------------------------
(* models: status constants and predicates *)

(* No stateless operation is being called. *)
NoCall == [op |-> "none"]

CampaignStatusDraft == "draft"
CampaignStatusScheduled == "scheduled"
CampaignStatusSending == "sending"
CampaignStatusSent == "sent"
CampaignStatusFailed == "failed"

CampaignStatuses ==
    {CampaignStatusDraft, CampaignStatusScheduled, CampaignStatusSending,
     CampaignStatusSent, CampaignStatusFailed}

MessageStatusPending == "pending"
MessageStatusSent == "sent"
MessageStatusFailed == "failed"

NoError == "null"
CauseText == "send failed"
MaxRetriesText == "max retries exceeded: send failed"

CanBeSent(status) ==
    status = CampaignStatusDraft \/ status = CampaignStatusScheduled

CanRetry(m, max) ==
    m.status = MessageStatusFailed /\ m.retry < max

----------------------------------------------------------------------------
(* Helpers on sequences and sets *)

RECURSIVE SelectKnown(_)
SelectKnown(ids) ==
    IF ids = <<>> THEN <<>>
    ELSE IF Head(ids) \in Customers
         THEN <<Head(ids)>> \o SelectKnown(Tail(ids))
         ELSE SelectKnown(Tail(ids))

MsgIds == 1 .. Len(msgs)

(* Counts taken over the whole table, without the campaign filter. *)
CountStatusAllCampaigns(c, st) ==
    Cardinality({m \in MsgIds : msgs[m].status = st})

CountStatus(c, st) ==
    Cardinality({m \in MsgIds : msgs[m].campaign = c /\ msgs[m].status = st})

----------------------------------------------------------------------------
(* The template service: templateService.Render                            *)
(*                                                                         *)
(* A template is a sequence of pieces of text; a string is the sequence of *)
(* its non-empty pieces, so that concatenating "" adds nothing.            *)

(* The pieces templates are built from: the five attribute placeholders, a *)
(* placeholder with another lower-case name, braces around a name the      *)
(* pattern does not accept, and plain text.                                *)
TemplatePieces ==
    {"{first_name}", "{last_name}", "{location}", "{preferred_product}", "{phone}",
     "{coupon}", "{Name}", "Hi "}

RECURSIVE SeqsUpTo(_, _)
SeqsUpTo(S, n) ==
    IF n = 0 THEN {<<>>}
    ELSE LET shorter == SeqsUpTo(S, n - 1)
         IN shorter \cup {Append(t, x) : t \in shorter, x \in S}

Templates == SeqsUpTo(TemplatePieces, MaxTemplateLen)

(* The customers: every combination of empty and non-empty attributes. *)
RenderCustomers ==
    [FirstName : {"", "Alice"}, LastName : {"", "Mwangi"}, Location : {"", "Nairobi"},
     PreferredProduct : {"", "Tea"}, Phone : {"", "+254700000001"}]

(* The nil *models.Customer. *)
NilCustomer == [nil |-> TRUE]

(* placeholderPattern, \{([a-z_]+)\}: the pieces it matches, with the name  *)
(* strings.Trim(match, "{}") leaves (lines 25, 48).                        *)
PlaceholderPattern ==
    [p \in {"{first_name}", "{last_name}", "{location}", "{preferred_product}",
            "{phone}", "{coupon}"} |->
        CASE p = "{first_name}" -> "first_name"
          [] p = "{last_name}" -> "last_name"
          [] p = "{location}" -> "location"
          [] p = "{preferred_product}" -> "preferred_product"
          [] p = "{phone}" -> "phone"
          [] p = "{coupon}" -> "coupon"]

(* A field map that has no entry for the phone. *)
FieldMapNoPhone(customer) ==
    [f \in {"first_name", "last_name", "location", "preferred_product"} |->
        CASE f = "first_name" -> customer.FirstName
          [] f = "last_name" -> customer.LastName
          [] f = "location" -> customer.Location
          [] f = "preferred_product" -> customer.PreferredProduct]

(* fieldMap of Render (lines 37-43). *)
FieldMap(customer) ==
    [f \in {"first_name", "last_name", "location", "preferred_product", "phone"} |->
        CASE f = "first_name" -> customer.FirstName
          [] f = "last_name" -> customer.LastName
          [] f = "location" -> customer.Location
          [] f = "preferred_product" -> customer.PreferredProduct
          [] f = "phone" -> customer.Phone]

(* The function Render passes to ReplaceAllStringFunc (lines 46-57). *)
Replacement(match, fieldMap) ==
    LET fieldName == PlaceholderPattern[match]
    IN IF fieldName \in DOMAIN fieldMap THEN fieldMap[fieldName] ELSE ""

(* String concatenation. *)
Concat(text, piece) == IF piece = "" THEN text ELSE Append(text, piece)

(* regexp.ReplaceAllStringFunc: every match is replaced, the rest is kept. *)
RECURSIVE ReplaceAllStringFunc(_, _)
ReplaceAllStringFunc(template, fieldMap) ==
    IF template = <<>> THEN <<>>
    ELSE LET n == Len(template)
             last == template[n]
         IN Concat(ReplaceAllStringFunc(SubSeq(template, 1, n - 1), fieldMap),
                   IF last \in DOMAIN PlaceholderPattern
                   THEN Replacement(last, fieldMap) ELSE last)

(* templateService.Render (lines 31-60). *)
Render(template, customer) ==
    IF customer = NilCustomer
    THEN [text |-> <<>>, err |-> "InvalidInput"]
    ELSE [text |-> ReplaceAllStringFunc(template, FieldMap(customer)), err |-> "nil"]

----------------------------------------------------------------------------
(* The rows the pipeline reads and never writes: the customers and, of the *)
(* campaigns, channel and template.                                        *)

CustomerRow(k) ==
    IF k = 1
    THEN [FirstName |-> "Alice", LastName |-> "Mwangi", Location |-> "Nairobi",
          PreferredProduct |-> "Tea", Phone |-> "+254700000001"]
    ELSE IF k = 2
    THEN [FirstName |-> "", LastName |-> "Otieno", Location |-> "",
          PreferredProduct |-> "", Phone |-> "+254700000002"]
    ELSE [FirstName |-> "", LastName |-> "", Location |-> "",
          PreferredProduct |-> "", Phone |-> "+254700000000"]

BaseTemplate(c) == <<"Hi ", "{first_name}", "{preferred_product}">>

Channel(c) == "sms"

----------------------------------------------------------------------------
(* The send orchestrator: campaignService.SendCampaign *)

(* ids: req.CustomerIDs; custs: the customers of the built messages;      *)
(* queued, status: MessagesQueued and Status of the SendCampaignResult.    *)
IdleSend ==
    [pc |-> "idle", camp |-> 0, ids |-> <<>>, custs |-> <<>>, requested |-> 0,
     first |-> 0, idx |-> 0, queued |-> 0, result |-> "none", status |-> "none",
     afterOk |-> FALSE]

OkSendBefore(c) ==
    \E t \in DOMAIN sends :
        sends[t].pc = "done" /\ sends[t].result = "ok" /\ sends[t].camp = c

(* The messages a call has created *)
Created(s) ==
    IF sends[s].first = 0 THEN {}
    ELSE sends[s].first .. (sends[s].first + Len(sends[s].custs) - 1)

(* A call that loads the campaign before it validates the request. *)
SendOutcomeLoadFirst(c, ids) ==
    IF c \notin Campaigns THEN "NotFound"
    ELSE IF Len(ids) = 0 THEN "InvalidInput"
    ELSE IF ~CanBeSent(cstatus[c]) THEN "Conflict"
    ELSE IF Len(SelectKnown(ids)) = 0 THEN "InvalidInput"
    ELSE "build"

(* Validate, load the campaign, check CanBeSent, build the messages        *)
(* (lines 124-180): the error returned, or "build" when there are messages *)
(* to persist. All of it only reads; a campaign row that cannot be read    *)
(* for another reason than its absence returns the store's error at the    *)
(* same place.                                                             *)
SendOutcome(c, ids) ==
    IF Len(ids) = 0 THEN "InvalidInput"
    ELSE IF c \notin Campaigns THEN "NotFound"
    ELSE IF ~CanBeSent(cstatus[c]) THEN "Conflict"
    ELSE IF Len(SelectKnown(ids)) = 0 THEN "InvalidInput"
    ELSE "build"

(* A call that marks the campaign 'sending' before it finds that no        *)
(* recipient yields a message.                                             *)
SendStartFlipsFirst(s) ==
    /\ sends[s].pc = "idle"
    /\ \A t \in 1 .. (s - 1) : sends[t].pc # "idle"
    /\ \E r \in requests :
        LET c == r[1]
            ids == r[2]
            out == SendOutcome(c, ids)
            base == [IdleSend EXCEPT !.camp = c, !.ids = ids, !.requested = Len(ids),
                                     !.afterOk = OkSendBefore(c)]
        IN /\ sends' = [sends EXCEPT ![s] =
                IF out = "build"
                THEN [base EXCEPT !.pc = "create", !.custs = SelectKnown(ids)]
                ELSE [base EXCEPT !.pc = "done", !.result = out]]
           /\ cstatus' = IF out = "InvalidInput" /\ ids # <<>> /\ c \in Campaigns
                         THEN [cstatus EXCEPT ![c] = CampaignStatusSending]
                         ELSE cstatus
    /\ UNCHANGED <<msgs, queue, cons, handlers, lastResult, ctxDone,
                   faults, requeues, requests, maxRetries, concurrencyCfg, call>>

(* A call that gives up at the first customer it cannot load. *)
SendStartAbortOnMissing(s) ==
    /\ sends[s].pc = "idle"
    /\ \A t \in 1 .. (s - 1) : sends[t].pc # "idle"
    /\ \E r \in requests :
        LET c == r[1]
            ids == r[2]
            out == IF SendOutcome(c, ids) = "build" /\ SelectKnown(ids) # ids
                   THEN "NotFound" ELSE SendOutcome(c, ids)
            base == [IdleSend EXCEPT !.camp = c, !.ids = ids, !.requested = Len(ids),
                                     !.afterOk = OkSendBefore(c)]
        IN sends' = [sends EXCEPT ![s] =
              IF out = "build"
              THEN [base EXCEPT !.pc = "create", !.custs = SelectKnown(ids)]
              ELSE [base EXCEPT !.pc = "done", !.result = out]]
    /\ UNCHANGED <<cstatus, msgs, queue, cons, handlers, lastResult, ctxDone,
                   faults, requeues, requests, maxRetries, concurrencyCfg, call>>

(* afterOk: the call starts after a call on the same campaign returned success. *)
SendStart(s) ==
    /\ sends[s].pc = "idle"
    /\ \A t \in 1 .. (s - 1) : sends[t].pc # "idle"
    /\ \E r \in requests :
        LET c == r[1]
            ids == r[2]
            out == SendOutcome(c, ids)
            base == [IdleSend EXCEPT !.camp = c, !.ids = ids, !.requested = Len(ids),
                                     !.afterOk = OkSendBefore(c)]
        IN sends' = [sends EXCEPT ![s] =
              IF out = "build"
              THEN [base EXCEPT !.pc = "create", !.custs = SelectKnown(ids)]
              ELSE [base EXCEPT !.pc = "done", !.result = out]]
    /\ UNCHANGED <<cstatus, msgs, queue, cons, handlers, lastResult, ctxDone,
                   faults, requeues, requests, maxRetries, concurrencyCfg, call>>

(* The message SendCampaign builds for a customer it loaded (lines 155-173). *)
NewMessage(c, cust) ==
    [campaign |-> c, customer |-> cust, status |-> MessageStatusPending,
     lastError |-> NoError, retry |-> 0,
     content |-> Render(BaseTemplate(c), CustomerRow(cust)).text]

(* A batch write without a transaction: a failure leaves the first row. *)
SendCreatePartial(s) ==
    /\ sends[s].pc = "create"
    /\ \E fail \in BOOLEAN :
        /\ fail => faults > 0
        /\ faults' = IF fail THEN faults - 1 ELSE faults
        /\ IF fail
           THEN /\ sends' = [sends EXCEPT ![s].pc = "done", ![s].result = "Internal"]
                /\ msgs' = Append(msgs, NewMessage(sends[s].camp, sends[s].custs[1]))
           ELSE /\ msgs' = msgs \o [i \in 1 .. Len(sends[s].custs) |->
                                       NewMessage(sends[s].camp, sends[s].custs[i])]
                /\ sends' = [sends EXCEPT ![s].pc = "publish",
                                          ![s].first = Len(msgs) + 1,
                                          ![s].idx = 1]
    /\ UNCHANGED <<cstatus, queue, cons, handlers, lastResult, ctxDone, requeues, requests,
                   maxRetries, concurrencyCfg, call>>

(* messageRepo.CreateBatch: one transaction, all rows or none (lines 182-189). *)
SendCreate(s) ==
    /\ sends[s].pc = "create"
    /\ \E fail \in BOOLEAN :
        /\ fail => faults > 0
        /\ faults' = IF fail THEN faults - 1 ELSE faults
        /\ IF fail
           THEN /\ sends' = [sends EXCEPT ![s].pc = "done", ![s].result = "Internal"]
                /\ msgs' = msgs
           ELSE /\ msgs' = msgs \o [i \in 1 .. Len(sends[s].custs) |->
                                       NewMessage(sends[s].camp, sends[s].custs[i])]
                /\ sends' = [sends EXCEPT ![s].pc = "publish",
                                          ![s].first = Len(msgs) + 1,
                                          ![s].idx = 1]
    /\ UNCHANGED <<cstatus, queue, cons, handlers, lastResult, ctxDone, requeues, requests,
                   maxRetries, concurrencyCfg, call>>

(* A publish that pushes at the end BRPOP pops from. *)
PublishAtFront(q, mid) == <<mid>> \o q

(* redisClient.Publish: LPUSH, consumed by BRPOP from the other end. *)
Publish(q, mid) == Append(q, mid)

(* A publish loop that counts the jobs it failed to enqueue. *)
SendPublishCountAll(s) ==
    /\ sends[s].pc = "publish"
    /\ \E fail \in BOOLEAN :
        /\ fail => faults > 0
        /\ faults' = IF fail THEN faults - 1 ELSE faults
        /\ LET mid == sends[s].first + sends[s].idx - 1
               last == sends[s].idx = Len(sends[s].custs)
           IN /\ queue' = IF fail THEN queue ELSE Publish(queue, mid)
              /\ sends' = [sends EXCEPT
                    ![s].queued = @ + 1,
                    ![s].idx = @ + 1,
                    ![s].pc = IF last THEN "status" ELSE "publish"]
    /\ UNCHANGED <<cstatus, msgs, cons, handlers, lastResult, ctxDone, requeues, requests,
                   maxRetries, concurrencyCfg, call>>

(* One iteration of the publish loop (lines 191-206). *)
SendPublish(s) ==
    /\ sends[s].pc = "publish"
    /\ \E fail \in BOOLEAN :
        /\ fail => faults > 0
        /\ faults' = IF fail THEN faults - 1 ELSE faults
        /\ LET mid == sends[s].first + sends[s].idx - 1
               last == sends[s].idx = Len(sends[s].custs)
           IN /\ queue' = IF fail THEN queue ELSE Publish(queue, mid)
              /\ sends' = [sends EXCEPT
                    ![s].queued = IF fail THEN @ ELSE @ + 1,
                    ![s].idx = @ + 1,
                    ![s].pc = IF last THEN "status" ELSE "publish"]
    /\ UNCHANGED <<cstatus, msgs, cons, handlers, lastResult, ctxDone, requeues, requests,
                   maxRetries, concurrencyCfg, call>>

(* A call that fails when the status write fails. *)
SendStatusStrict(s) ==
    /\ sends[s].pc = "status"
    /\ \E fail \in BOOLEAN :
        /\ fail => faults > 0
        /\ faults' = IF fail THEN faults - 1 ELSE faults
        /\ cstatus' = IF fail THEN cstatus
                      ELSE [cstatus EXCEPT ![sends[s].camp] = CampaignStatusSending]
        /\ sends' = IF fail
                    THEN [sends EXCEPT ![s].pc = "done", ![s].result = "Internal"]
                    ELSE [sends EXCEPT ![s].pc = "done", ![s].result = "ok",
                                       ![s].status = CampaignStatusSending]
    /\ UNCHANGED <<msgs, queue, cons, handlers, lastResult, ctxDone, requeues, requests,
                   maxRetries, concurrencyCfg, call>>

(* campaignRepo.UpdateStatus(sending), best effort, then return (lines 208-226). *)
SendStatus(s) ==
    /\ sends[s].pc = "status"
    /\ \E fail \in BOOLEAN :
        /\ fail => faults > 0
        /\ faults' = IF fail THEN faults - 1 ELSE faults
        /\ cstatus' = IF fail THEN cstatus
                      ELSE [cstatus EXCEPT ![sends[s].camp] = CampaignStatusSending]
    /\ sends' = [sends EXCEPT ![s].pc = "done", ![s].result = "ok",
                              ![s].status = CampaignStatusSending]
    /\ UNCHANGED <<msgs, queue, cons, handlers, lastResult, ctxDone, requeues, requests,
                   maxRetries, concurrencyCfg, call>>

----------------------------------------------------------------------------
(* The job consumer: redisClient.Consume *)

(* Clamp without its upper limit. *)
ClampFromBelow(c) ==
    IF c < 1 THEN 1 ELSE c

(* The concurrency validation at the top of Consume (lines 82-88). *)
Clamp(c) ==
    IF c < 1 THEN 1 ELSE IF c > MaxConcurrency THEN MaxConcurrency ELSE c

(* A semaphore with one slot too many. *)
SemFullOffByOne(c) == c.sem > c.concurrency

(* "semaphore <- struct{}{}" blocks while the buffered channel is full. *)
SemFull(c) == c.sem >= c.concurrency

(* waited: the handlers in flight when the cancellation was seen. *)
InitConsumer ==
    [pc |-> "init", concurrency |-> 0, sem |-> 0, job |-> 0, drained |-> 0,
     ret |-> "none", via |-> "none", waited |-> 0]

(* The sender has not been called. *)
NoSend == [channel |-> "none", phone |-> "none", content |-> <<>>]

(* sent: the arguments of the call's sender.Send. *)
NewHandler(mid) ==
    [mid |-> mid, pc |-> "fetch", retryCount |-> 0, incTo |-> 0,
     campStatus |-> "none", newStatus |-> "none", sent |-> NoSend]

ConsumeStart ==
    /\ cons.pc = "init"
    /\ cons' = [cons EXCEPT !.pc = "loop", !.concurrency = Clamp(concurrencyCfg)]
    /\ UNCHANGED <<cstatus, msgs, queue, sends, handlers, lastResult, ctxDone, faults,
                   requeues, requests, maxRetries, concurrencyCfg, call>>

(* The select at the top of the loop takes its default branch and calls *)
(* BRPOP (lines 99, 109-111).                                           *)
ConsumeSelect ==
    /\ cons.pc = "loop"
    /\ ~ctxDone
    /\ cons' = [cons EXCEPT !.pc = "pop"]
    /\ UNCHANGED <<cstatus, msgs, queue, sends, handlers, lastResult, ctxDone, faults,
                   requeues, requests, maxRetries, concurrencyCfg, call>>

(* A dequeue that reads the job and leaves it on the list. *)
ConsumeDequeueKeep ==
    /\ cons.pc = "pop"
    /\ queue # <<>>
    /\ cons' = [cons EXCEPT !.pc = "acquire", !.job = Head(queue)]
    /\ UNCHANGED <<cstatus, msgs, queue, sends, handlers, lastResult, ctxDone, faults,
                   requeues, requests, maxRetries, concurrencyCfg, call>>

(* A dequeue that takes the newest job instead of the oldest. *)
ConsumeDequeueNewest ==
    /\ cons.pc = "pop"
    /\ queue # <<>>
    /\ cons' = [cons EXCEPT !.pc = "acquire", !.job = queue[Len(queue)]]
    /\ queue' = SubSeq(queue, 1, Len(queue) - 1)
    /\ UNCHANGED <<cstatus, msgs, sends, handlers, lastResult, ctxDone, faults, requeues, requests,
                   maxRetries, concurrencyCfg, call>>

(* BRPOP returned a job (lines 111, 131-149). A BRPOP that was already  *)
(* waiting when the context was cancelled still returns the job it pops. *)
ConsumeDequeue ==
    /\ cons.pc = "pop"
    /\ queue # <<>>
    /\ cons' = [cons EXCEPT !.pc = "acquire", !.job = Head(queue)]
    /\ queue' = Tail(queue)
    /\ UNCHANGED <<cstatus, msgs, sends, handlers, lastResult, ctxDone, faults, requeues, requests,
                   maxRetries, concurrencyCfg, call>>

(* BRPOP timed out on the empty list: redis.Nil, continue (lines 113-116). *)
ConsumeTimeout ==
    /\ cons.pc = "pop"
    /\ queue = <<>>
    /\ cons' = [cons EXCEPT !.pc = "loop"]
    /\ UNCHANGED <<cstatus, msgs, queue, sends, handlers, lastResult, ctxDone, faults,
                   requeues, requests, maxRetries, concurrencyCfg, call>>

(* A consumer that gives up when BRPOP fails. *)
ConsumeDequeueErrorStops ==
    /\ cons.pc = "pop"
    /\ faults > 0
    /\ faults' = faults - 1
    /\ cons' = [cons EXCEPT !.pc = "done", !.ret = "error"]
    /\ UNCHANGED <<cstatus, msgs, queue, sends, handlers, lastResult, ctxDone,
                   requeues, requests, maxRetries, concurrencyCfg, call>>

(* BRPOP failed with another error: log, sleep, continue (lines 125-128). *)
ConsumeDequeueError ==
    /\ cons.pc = "pop"
    /\ faults > 0
    /\ faults' = faults - 1
    /\ cons' = [cons EXCEPT !.pc = "loop"]
    /\ UNCHANGED <<cstatus, msgs, queue, sends, handlers, lastResult, ctxDone,
                   requeues, requests, maxRetries, concurrencyCfg, call>>

(* Acquire a slot, then spawn the handler goroutine (lines 151-167). *)
ConsumeAcquire ==
    /\ cons.pc = "acquire"
    /\ ~SemFull(cons)
    /\ cons' = [cons EXCEPT !.pc = "loop", !.job = 0, !.sem = @ + 1]
    /\ handlers' = handlers (+) SetToBag({NewHandler(cons.job)})
    /\ UNCHANGED <<cstatus, msgs, queue, sends, lastResult, ctxDone, faults, requeues, requests,
                   maxRetries, concurrencyCfg, call>>

(* The context is cancelled (SIGINT / SIGTERM in the worker's main). *)
Cancel ==
    /\ ~ctxDone
    /\ ctxDone' = TRUE
    /\ UNCHANGED <<cstatus, msgs, queue, sends, cons, handlers, lastResult, faults,
                   requeues, requests, maxRetries, concurrencyCfg, call>>

(* Cancellation seen by the select at the top of the loop (lines 100-101): *)
(* stop dequeuing and start the drain.                                     *)
ConsumeCancelled ==
    /\ cons.pc = "loop"
    /\ ctxDone
    /\ cons' = [cons EXCEPT !.pc = "drain", !.drained = 0, !.via = "select",
                             !.waited = BagCardinality(handlers)]
    /\ UNCHANGED <<cstatus, msgs, queue, sends, handlers, lastResult, ctxDone, faults,
                   requeues, requests, maxRetries, concurrencyCfg, call>>

(* Cancellation returned by BRPOP as its error (lines 117-118): start the *)
(* drain.                                                                 *)
ConsumeDequeueCancelled ==
    /\ cons.pc = "pop"
    /\ ctxDone
    /\ cons' = [cons EXCEPT !.pc = "drain", !.drained = 0, !.via = "dequeue",
                             !.waited = BagCardinality(handlers)]
    /\ UNCHANGED <<cstatus, msgs, queue, sends, handlers, lastResult, ctxDone, faults,
                   requeues, requests, maxRetries, concurrencyCfg, call>>

(* A drain loop that does not wait for a free slot. *)
ConsumeDrainNoWait ==
    /\ cons.pc = "drain"
    /\ cons.drained < cons.concurrency
    /\ cons' = [cons EXCEPT !.drained = @ + 1]
    /\ UNCHANGED <<cstatus, msgs, queue, sends, handlers, lastResult, ctxDone, faults,
                   requeues, requests, maxRetries, concurrencyCfg, call>>

(* One iteration of the drain loop (lines 103-105, 120-122). *)
ConsumeDrain ==
    /\ cons.pc = "drain"
    /\ cons.drained < cons.concurrency
    /\ ~SemFull(cons)
    /\ cons' = [cons EXCEPT !.sem = @ + 1, !.drained = @ + 1]
    /\ UNCHANGED <<cstatus, msgs, queue, sends, handlers, lastResult, ctxDone, faults,
                   requeues, requests, maxRetries, concurrencyCfg, call>>

ConsumeReturn ==
    /\ cons.pc = "drain"
    /\ cons.drained = cons.concurrency
    /\ cons' = [cons EXCEPT !.pc = "done", !.ret = "canceled"]
    /\ UNCHANGED <<cstatus, msgs, queue, sends, handlers, lastResult, ctxDone, faults,
                   requeues, requests, maxRetries, concurrencyCfg, call>>

(* A handler goroutine that returns without giving its slot back. *)
ReleaseNothing(c) == c

(* The deferred "<-semaphore" of a handler goroutine that returns. *)
Release(c) == [c EXCEPT !.sem = @ - 1]

(* The handlers that have started and not yet finished. *)
Running == BagCardinality(handlers)

----------------------------------------------------------------------------
(* The operator re-enqueues a failed message that is still eligible        *)
(* (OutboundMessage.CanRetry) with redisClient.Publish.                    *)

Requeue(m) ==
    /\ requeues > 0
    /\ CanRetry(msgs[m], maxRetries)
    /\ requeues' = requeues - 1
    /\ queue' = Publish(queue, m)
    /\ UNCHANGED <<cstatus, msgs, sends, cons, handlers, lastResult, ctxDone, faults, requests,
                   maxRetries, concurrencyCfg, call>>

----------------------------------------------------------------------------
(* The message processor: MessageProcessor.Process *)

(* The handler goroutine h moves on to h2. *)
Continue(h, h2) ==
    /\ handlers' = (handlers (-) SetToBag({h})) (+) SetToBag({h2})
    /\ UNCHANGED <<cons, lastResult>>

(* A handler goroutine that keeps its slot when Process fails. *)
ReturnKeepSlot(h, e) ==
    /\ handlers' = handlers (-) SetToBag({h})
    /\ lastResult' = IF e THEN "error" ELSE "nil"
    /\ cons' = IF e THEN cons ELSE Release(cons)

(* Process returns (e: with an error, which Consume only logs); the        *)
(* goroutine's deferred "<-semaphore" frees its slot                       *)
(* (redis_client.go 155-167).                                              *)
Return(h, e) ==
    /\ handlers' = handlers (-) SetToBag({h})
    /\ lastResult' = IF e THEN "error" ELSE "nil"
    /\ cons' = Release(cons)

(* The arguments of sender.Send (line 251): from the campaign, the         *)
(* customer and the message Process fetched.                               *)
SenderArguments(message) ==
    [channel |-> Channel(message.campaign),
     phone |-> CustomerRow(message.customer).Phone,
     content |-> message.content]

(* A Process that calls the sender although a fetch failed. *)
ProcessFetchIgnoresError(h) ==
    /\ h.pc = "fetch"
    /\ \E fail \in BOOLEAN, sendErr \in BOOLEAN :
        LET missing == h.mid \notin MsgIds
        IN /\ fail => (faults > 0 /\ ~missing)
           /\ faults' = IF fail THEN faults - 1 ELSE faults
           /\ Continue(h, [h EXCEPT !.retryCount = IF missing THEN 0
                                                  ELSE msgs[h.mid].retry,
                                    !.sent = IF missing THEN NoSend
                                             ELSE SenderArguments(msgs[h.mid]),
                                    !.pc = IF sendErr THEN "increment"
                                           ELSE "markSent"])
    /\ UNCHANGED <<cstatus, msgs, queue, sends, ctxDone, requeues, requests, maxRetries,
                   concurrencyCfg, call>>

(* Fetch the message, its campaign and its customer, then call the sender *)
(* (lines 212-271). A message row that does not exist, or a failing read, *)
(* returns an error before the sender is called.                          *)
ProcessFetch(h) ==
    /\ h.pc = "fetch"
    /\ \E fail \in BOOLEAN, sendErr \in BOOLEAN :
        LET missing == h.mid \notin MsgIds
            bad == missing \/ fail
        IN /\ fail => (faults > 0 /\ ~missing)
           /\ bad => ~sendErr
           /\ faults' = IF fail THEN faults - 1 ELSE faults
           /\ IF bad THEN Return(h, TRUE)
              ELSE Continue(h, [h EXCEPT !.retryCount = msgs[h.mid].retry,
                                         !.sent = SenderArguments(msgs[h.mid]),
                                         !.pc = IF sendErr THEN "increment"
                                                ELSE "markSent"])
    /\ UNCHANGED <<cstatus, msgs, queue, sends, ctxDone, requeues, requests, maxRetries,
                   concurrencyCfg, call>>

(* A status update that writes the whole row from a message without its   *)
(* content.                                                                *)
UpdateStatusWholeRow(rows, mid, status, lastError) ==
    [rows EXCEPT ![mid].status = status, ![mid].lastError = lastError,
                 ![mid].content = <<>>]

(* outboundMessageRepository.UpdateStatus: SET status, last_error. *)
UpdateStatus(rows, mid, status, lastError) ==
    [rows EXCEPT ![mid].status = status, ![mid].lastError = lastError]

(* An increment that counts an attempt twice. *)
IncrementRetryCountTwice(rows, mid) ==
    [rows EXCEPT ![mid].retry = @ + 2]

(* outboundMessageRepository.IncrementRetryCount: SET retry_count = retry_count + 1. *)
IncrementRetryCount(rows, mid) ==
    [rows EXCEPT ![mid].retry = @ + 1]

(* A handleSuccess that marks the message sent and returns at once. *)
HandleSuccessNoAggregation(h) ==
    /\ h.pc = "markSent"
    /\ \E fail \in BOOLEAN :
        /\ fail => faults > 0
        /\ faults' = IF fail THEN faults - 1 ELSE faults
        /\ msgs' = IF fail THEN msgs
                   ELSE UpdateStatus(msgs, h.mid, MessageStatusSent, NoError)
        /\ Return(h, fail)
    /\ UNCHANGED <<cstatus, queue, sends, ctxDone, requeues, requests, maxRetries,
                   concurrencyCfg, call>>

(* handleSuccess: mark the message sent, then aggregate (lines 274-288). *)
HandleSuccess(h) ==
    /\ h.pc = "markSent"
    /\ \E fail \in BOOLEAN :
        /\ fail => faults > 0
        /\ faults' = IF fail THEN faults - 1 ELSE faults
        /\ IF fail
           THEN /\ msgs' = msgs
                /\ Return(h, TRUE)
           ELSE /\ msgs' = UpdateStatus(msgs, h.mid, MessageStatusSent, NoError)
                /\ Continue(h, [h EXCEPT !.pc = "aggLoad"])
    /\ UNCHANGED <<cstatus, queue, sends, ctxDone, requeues, requests, maxRetries,
                   concurrencyCfg, call>>

(* handleFailure, first store call: increment the retry counter (lines 292-299). *)
HandleFailureIncrement(h) ==
    /\ h.pc = "increment"
    /\ \E fail \in BOOLEAN :
        /\ fail => faults > 0
        /\ faults' = IF fail THEN faults - 1 ELSE faults
        /\ IF fail
           THEN /\ msgs' = msgs
                /\ Return(h, TRUE)
           ELSE /\ msgs' = IncrementRetryCount(msgs, h.mid)
                /\ Continue(h, [h EXCEPT !.pc = "markFailed",
                                         !.incTo = msgs[h.mid].retry + 1])
    /\ UNCHANGED <<cstatus, queue, sends, ctxDone, requeues, requests, maxRetries,
                   concurrencyCfg, call>>

(* A decision that allows one attempt more. *)
MaxRetriesReachedLate(retryCount, max) == retryCount >= max

(* The decision of handleFailure (line 302): from the row Process fetched. *)
MaxRetriesReached(retryCount, max) == retryCount + 1 >= max

(* A handleFailure that runs the aggregation after every failure. *)
HandleFailureUpdateAggregatesAlways(h) ==
    /\ h.pc = "markFailed"
    /\ \E fail \in BOOLEAN :
        LET terminal == MaxRetriesReached(h.retryCount, maxRetries)
            text == IF terminal THEN MaxRetriesText ELSE CauseText
        IN /\ fail => faults > 0
           /\ faults' = IF fail THEN faults - 1 ELSE faults
           /\ IF fail
              THEN /\ msgs' = msgs
                   /\ Return(h, TRUE)
              ELSE /\ msgs' = UpdateStatus(msgs, h.mid, MessageStatusFailed, text)
                   /\ Continue(h, [h EXCEPT !.pc = "aggLoad"])
    /\ UNCHANGED <<cstatus, queue, sends, ctxDone, requeues, requests, maxRetries,
                   concurrencyCfg, call>>

(* handleFailure, second store call: mark the message failed; at the       *)
(* maximum aggregate and return nil, otherwise return an error             *)
(* (lines 301-345).                                                        *)
HandleFailureUpdate(h) ==
    /\ h.pc = "markFailed"
    /\ \E fail \in BOOLEAN :
        LET terminal == MaxRetriesReached(h.retryCount, maxRetries)
            text == IF terminal THEN MaxRetriesText ELSE CauseText
        IN /\ fail => faults > 0
           /\ faults' = IF fail THEN faults - 1 ELSE faults
           /\ IF fail
              THEN /\ msgs' = msgs
                   /\ Return(h, TRUE)
              ELSE /\ msgs' = UpdateStatus(msgs, h.mid, MessageStatusFailed, text)
                   /\ IF terminal
                      THEN Continue(h, [h EXCEPT !.pc = "aggLoad"])
                      ELSE Return(h, TRUE)
    /\ UNCHANGED <<cstatus, queue, sends, ctxDone, requeues, requests, maxRetries,
                   concurrencyCfg, call>>

(* updateCampaignStatusIfComplete, GetWithStats: the campaign row          *)
(* (processor.go 351-358, campaignRepository.GetWithStats 86-90).          *)
AggregateLoad(h) ==
    /\ h.pc = "aggLoad"
    /\ \E fail \in BOOLEAN :
        /\ fail => faults > 0
        /\ faults' = IF fail THEN faults - 1 ELSE faults
        /\ IF fail THEN Return(h, FALSE)
           ELSE Continue(h, [h EXCEPT !.pc = "aggStats",
                                      !.campStatus = cstatus[msgs[h.mid].campaign]])
    /\ UNCHANGED <<cstatus, msgs, queue, sends, ctxDone, requeues, requests, maxRetries,
                   concurrencyCfg, call>>

(* A final status that reports any failure as a failed campaign. *)
FinalStatusAnyFailed(sent, failed) ==
    IF failed > 0 THEN CampaignStatusFailed ELSE CampaignStatusSent

(* The final status computed from the counts (lines 369-377). *)
FinalStatus(sent, failed) ==
    IF failed > 0 /\ sent = 0 THEN CampaignStatusFailed ELSE CampaignStatusSent

(* updateCampaignStatusIfComplete, GetWithStats: the counts, then the      *)
(* decision (GetWithStats 92-114, processor.go 360-382).                   *)
AggregateStats(h) ==
    /\ h.pc = "aggStats"
    /\ \E fail \in BOOLEAN :
        LET c == msgs[h.mid].campaign
            pending == CountStatus(c, MessageStatusPending)
            new == FinalStatus(CountStatus(c, MessageStatusSent),
                               CountStatus(c, MessageStatusFailed))
            stop == fail \/ pending > 0 \/ h.campStatus = new
        IN /\ fail => faults > 0
           /\ faults' = IF fail THEN faults - 1 ELSE faults
           /\ IF stop THEN Return(h, FALSE)
              ELSE Continue(h, [h EXCEPT !.pc = "aggWrite", !.campStatus = "none",
                                         !.newStatus = new])
    /\ UNCHANGED <<cstatus, msgs, queue, sends, ctxDone, requeues, requests, maxRetries,
                   concurrencyCfg, call>>

(* updateCampaignStatusIfComplete: write the new status (lines 384-402). *)
AggregateWrite(h) ==
    /\ h.pc = "aggWrite"
    /\ \E fail \in BOOLEAN :
        /\ fail => faults > 0
        /\ faults' = IF fail THEN faults - 1 ELSE faults
        /\ cstatus' = IF fail THEN cstatus
                      ELSE [cstatus EXCEPT ![msgs[h.mid].campaign] = h.newStatus]
    /\ Return(h, FALSE)
    /\ UNCHANGED <<msgs, queue, sends, ctxDone, requeues, requests, maxRetries,
                   concurrencyCfg, call>>

----------------------------------------------------------------------------
(* The pipeline: requests, the running consumer and the processor. *)

Init ==
    /\ maxRetries \in MaxRetryInputs
    /\ concurrencyCfg \in PipelineConcurrencyInputs
    /\ cstatus \in [Campaigns -> {CampaignStatusDraft, CampaignStatusScheduled}]
    /\ msgs = <<>>
    /\ queue = <<>>
    /\ \E b \in Budgets :
        /\ sends = [s \in 1 .. b.sends |-> IdleSend]
        /\ requeues = b.requeues
    /\ faults = MaxFaults
    /\ cons = [InitConsumer EXCEPT !.pc = "loop",
                                   !.concurrency = Clamp(concurrencyCfg)]
    /\ handlers = EmptyBag
    /\ lastResult = "none"
    /\ ctxDone = FALSE
    /\ requests = PipelineRequests
    /\ call = NoCall

Next ==
    \/ \E s \in DOMAIN sends : SendStart(s)
    \/ \E s \in DOMAIN sends : SendCreate(s)
    \/ \E s \in DOMAIN sends : SendPublish(s)
    \/ \E s \in DOMAIN sends : SendStatus(s)
    \/ \E m \in MsgIds : Requeue(m)
    \/ ConsumeSelect
    \/ ConsumeDequeue
    \/ ConsumeTimeout
    \/ ConsumeDequeueError
    \/ ConsumeAcquire
    \/ \E h \in BagToSet(handlers) : ProcessFetch(h)
    \/ \E h \in BagToSet(handlers) : HandleSuccess(h)
    \/ \E h \in BagToSet(handlers) : HandleFailureIncrement(h)
    \/ \E h \in BagToSet(handlers) : HandleFailureUpdate(h)
    \/ \E h \in BagToSet(handlers) : AggregateLoad(h)
    \/ \E h \in BagToSet(handlers) : AggregateStats(h)
    \/ \E h \in BagToSet(handlers) : AggregateWrite(h)

Spec == Init /\ [][Next]_vars

----------------------------------------------------------------------------
(* The consumer alone, from start to shutdown: the queue holds jobs whose  *)
(* message rows are gone from the store (deleted with their campaign), so  *)
(* every handler is a Process call that fails at its first fetch.          *)

InitConsume ==
    /\ cstatus \in [Campaigns -> {CampaignStatusSending}]
    /\ msgs = <<>>
    /\ \E n \in 0 .. MaxJobs : queue = [i \in 1 .. n |-> i]
    /\ sends = <<>>
    /\ cons = InitConsumer
    /\ handlers = EmptyBag
    /\ lastResult = "none"
    /\ ctxDone = FALSE
    /\ faults = MaxFaults
    /\ requeues = 0
    /\ requests = {}
    /\ call = NoCall
    /\ maxRetries = DefaultMaxRetryCount
    /\ concurrencyCfg \in ConsumerConcurrencyInputs

NextConsume ==
    \/ ConsumeStart
    \/ ConsumeSelect
    \/ ConsumeDequeue
    \/ ConsumeTimeout
    \/ ConsumeDequeueError
    \/ ConsumeAcquire
    \/ Cancel
    \/ ConsumeCancelled
    \/ ConsumeDequeueCancelled
    \/ ConsumeDrain
    \/ ConsumeReturn
    \/ \E h \in BagToSet(handlers) : ProcessFetch(h)

SpecConsumer == InitConsume /\ [][NextConsume]_vars

(* The consumer under a fair scheduler: the goroutine that runs Consume     *)
(* keeps taking its own steps (BRPOP returns within its one-second timeout, *)
(* the error branch sleeps one second), and every handler goroutine that    *)
(* was dispatched keeps running until it returns. Nothing obliges the       *)
(* cancellation or a dequeue failure to happen.                             *)
ConsumeStep ==
    \/ ConsumeStart
    \/ ConsumeSelect
    \/ ConsumeDequeue
    \/ ConsumeTimeout
    \/ ConsumeAcquire
    \/ ConsumeCancelled
    \/ ConsumeDequeueCancelled
    \/ ConsumeDrain
    \/ ConsumeReturn

HandlerStep == \E h \in BagToSet(handlers) : ProcessFetch(h)

SpecConsumerFair ==
    /\ InitConsume
    /\ [][NextConsume]_vars
    /\ WF_vars(ConsumeStep)
    /\ WF_vars(HandlerStep)

(* The consumer with a producer: redisClient.Publish appends the job of     *)
(* message m while the consumer runs, at any time and any number of times,  *)
(* but never while an earlier job of m is still queued, held by the         *)
(* consumer or being handled.                                               *)
Outstanding(m) ==
    \/ \E i \in DOMAIN queue : queue[i] = m
    \/ cons.job = m
    \/ \E h \in BagToSet(handlers) : h.mid = m

Enqueue(m) ==
    /\ ~Outstanding(m)
    /\ queue' = Publish(queue, m)
    /\ UNCHANGED <<cstatus, msgs, sends, cons, handlers, lastResult, ctxDone, faults, requeues,
                   requests, maxRetries, concurrencyCfg, call>>

InitQueue ==
    /\ cstatus \in [Campaigns -> {CampaignStatusSending}]
    /\ msgs = <<>>
    /\ queue = <<>>
    /\ sends = <<>>
    /\ cons = InitConsumer
    /\ handlers = EmptyBag
    /\ lastResult = "none"
    /\ ctxDone = FALSE
    /\ faults = MaxFaults
    /\ requeues = 0
    /\ requests = {}
    /\ call = NoCall
    /\ maxRetries = DefaultMaxRetryCount
    /\ concurrencyCfg \in ConsumerConcurrencyInputs

NextQueue ==
    \/ NextConsume
    \/ \E m \in 1 .. QueueJobs : Enqueue(m)

SpecQueueFair ==
    /\ InitQueue
    /\ [][NextQueue]_vars
    /\ WF_vars(ConsumeStep)
    /\ WF_vars(HandlerStep)

----------------------------------------------------------------------------
(* SendCampaign alone, with no worker running: concurrent calls on an      *)
(* existing campaign in any status, or on a missing one, with recipient    *)
(* lists that are empty or hold unknown customers.                         *)

InitSend ==
    /\ cstatus \in [Campaigns -> CampaignStatuses]
    /\ msgs = <<>>
    /\ queue = <<>>
    /\ sends = [s \in 1 .. MaxSends |-> IdleSend]
    /\ cons = InitConsumer
    /\ handlers = EmptyBag
    /\ lastResult = "none"
    /\ ctxDone = FALSE
    /\ faults = MaxFaults
    /\ requeues = 0
    /\ requests = SendRequests
    /\ call = NoCall
    /\ maxRetries = DefaultMaxRetryCount
    /\ concurrencyCfg = MaxConcurrency

NextSend ==
    \/ \E s \in DOMAIN sends : SendStart(s)
    \/ \E s \in DOMAIN sends : SendCreate(s)
    \/ \E s \in DOMAIN sends : SendPublish(s)
    \/ \E s \in DOMAIN sends : SendStatus(s)

SpecSend == InitSend /\ [][NextSend]_vars

----------------------------------------------------------------------------
(* The all-deliveries-fail scenario: a campaign was sent to                *)
(* ScenarioMessages customers, the sender fails every attempt, and when a  *)
(* round of processing is over the operator re-enqueues every message that *)
(* failed below the maximum. No store or queue call fails.                 *)

RECURSIVE Eligible(_)
Eligible(n) ==
    IF n = 0 THEN <<>>
    ELSE IF CanRetry(msgs[n], maxRetries) THEN Append(Eligible(n - 1), n)
         ELSE Eligible(n - 1)

RoundOver ==
    queue = <<>> /\ handlers = EmptyBag /\ cons.job = 0

RequeueRound ==
    /\ RoundOver
    /\ Eligible(Len(msgs)) # <<>>
    /\ requeues >= Len(Eligible(Len(msgs)))
    /\ requeues' = requeues - Len(Eligible(Len(msgs)))
    /\ queue' = queue \o Eligible(Len(msgs))
    /\ UNCHANGED <<cstatus, msgs, sends, cons, handlers, lastResult, ctxDone, faults, requests,
                   maxRetries, concurrencyCfg, call>>

(* mockSender.Send with success rate 0: no Process call reaches handleSuccess. *)
SenderAlwaysFails ==
    \A g \in BagToSet(handlers') : g.pc # "markSent"

InitScenario ==
    /\ maxRetries = DefaultMaxRetryCount
    /\ concurrencyCfg \in ScenarioConcurrencyInputs
    /\ cstatus = [c \in Campaigns |-> CampaignStatusSending]
    /\ msgs = [i \in 1 .. ScenarioMessages |-> NewMessage(1, i)]
    /\ queue = [i \in 1 .. ScenarioMessages |-> i]
    /\ sends = <<>>
    /\ cons = [InitConsumer EXCEPT !.pc = "loop",
                                   !.concurrency = Clamp(concurrencyCfg)]
    /\ handlers = EmptyBag
    /\ lastResult = "none"
    /\ ctxDone = FALSE
    /\ faults = 0
    /\ requeues = ScenarioMessages * (maxRetries - 1)
    /\ requests = {}
    /\ call = NoCall

NextScenario ==
    \/ RequeueRound
    \/ ConsumeSelect
    \/ ConsumeDequeue
    \/ ConsumeTimeout
    \/ ConsumeAcquire
    \/ \E h \in BagToSet(handlers) : ProcessFetch(h) /\ SenderAlwaysFails
    \/ \E h \in BagToSet(handlers) : HandleFailureIncrement(h)
    \/ \E h \in BagToSet(handlers) : HandleFailureUpdate(h)
    \/ \E h \in BagToSet(handlers) : AggregateLoad(h)
    \/ \E h \in BagToSet(handlers) : AggregateStats(h)
    \/ \E h \in BagToSet(handlers) : AggregateWrite(h)

SpecScenario == InitScenario /\ [][NextScenario]_vars

----------------------------------------------------------------------------
(* The worker over two campaigns: both are being sent, their messages are   *)
(* stored pending and interleaved in the queue, the store may fail, and the *)
(* operator may re-enqueue a failed message.                                *)

TwoCampaigns == {1, 2}
CampaignOf(i) == 1 + ((i + 1) % 2)
CustomerOf(i) == (i + 1) \div 2
IsolationMaxRetryInputs == {1, 2}

InitIsolation ==
    /\ maxRetries \in IsolationMaxRetryInputs
    /\ concurrencyCfg \in PipelineConcurrencyInputs
    /\ cstatus = [c \in TwoCampaigns |-> CampaignStatusSending]
    /\ msgs = [i \in 1 .. IsolationMessages |-> NewMessage(CampaignOf(i), CustomerOf(i))]
    /\ queue = [i \in 1 .. IsolationMessages |-> i]
    /\ sends = <<>>
    /\ cons = [InitConsumer EXCEPT !.pc = "loop",
                                   !.concurrency = Clamp(concurrencyCfg)]
    /\ handlers = EmptyBag
    /\ lastResult = "none"
    /\ ctxDone = FALSE
    /\ faults = MaxFaults
    /\ requeues = 1
    /\ requests = {}
    /\ call = NoCall

NextIsolation ==
    \/ \E m \in MsgIds : Requeue(m)
    \/ ConsumeSelect
    \/ ConsumeDequeue
    \/ ConsumeTimeout
    \/ ConsumeAcquire
    \/ \E h \in BagToSet(handlers) : ProcessFetch(h)
    \/ \E h \in BagToSet(handlers) : HandleSuccess(h)
    \/ \E h \in BagToSet(handlers) : HandleFailureIncrement(h)
    \/ \E h \in BagToSet(handlers) : HandleFailureUpdate(h)
    \/ \E h \in BagToSet(handlers) : AggregateLoad(h)
    \/ \E h \in BagToSet(handlers) : AggregateStats(h)
    \/ \E h \in BagToSet(handlers) : AggregateWrite(h)

SpecIsolation == InitIsolation /\ [][NextIsolation]_vars

----------------------------------------------------------------------------
(* Calls of the template service *)

(* A call of Render returns. *)
RenderReturn ==
    /\ call.op = "Render"
    /\ call.pc = "called"
    /\ call' = [call EXCEPT !.pc = "returned",
                            !.result = Render(call.template, call.customer)]
    /\ UNCHANGED <<cstatus, msgs, queue, sends, cons, handlers, lastResult, ctxDone,
                   faults, requeues, requests, maxRetries, concurrencyCfg>>

InitRender ==
    /\ cstatus = [c \in Campaigns |-> CampaignStatusDraft]
    /\ msgs = <<>>
    /\ queue = <<>>
    /\ sends = <<>>
    /\ cons = InitConsumer
    /\ handlers = EmptyBag
    /\ lastResult = "none"
    /\ ctxDone = FALSE
    /\ faults = 0
    /\ requeues = 0
    /\ requests = {}
    /\ maxRetries = DefaultMaxRetryCount
    /\ concurrencyCfg = MaxConcurrency
    /\ \E t \in Templates, c \in RenderCustomers \cup {NilCustomer} :
        call = [op |-> "Render", pc |-> "called", template |-> t, customer |-> c,
                result |-> [text |-> <<>>, err |-> "none"]]

NextRender == RenderReturn

SpecRender == InitRender /\ [][NextRender]_vars

----------------------------------------------------------------------------
(* Pagination: models.ValidateAndSetDefaults, models.CalculateOffset,      *)
(* models.NewPaginationResult, campaignRepository.List and                 *)
(* campaignService.List                                                    *)
(*                                                                         *)
(* A Go int is IntBits wide, in two's complement, and its arithmetic wraps *)
(* around. It is kept as its 16-bit limbs, lowest first.                   *)

LimbBase == 2 ^ 16
Top == IntBits \div 16
Limbs == 1 .. Top

(* The int with value n, for -LimbBase <= n < LimbBase. *)
GoInt(n) ==
    [i \in Limbs |-> IF n >= 0 THEN (IF i = 1 THEN n ELSE 0)
                     ELSE (IF i = 1 THEN LimbBase + n ELSE LimbBase - 1)]

(* math.MaxInt and math.MinInt: what strconv.Atoi returns, with an error   *)
(* the handler drops, for a numeral out of range (part_007 50-51).         *)
MaxInt == [i \in Limbs |-> IF i = Top THEN LimbBase \div 2 - 1 ELSE LimbBase - 1]
MinInt == [i \in Limbs |-> IF i = Top THEN LimbBase \div 2 ELSE 0]

IsNegative(x) == x[Top] >= LimbBase \div 2

(* x has the value of its lowest limb. *)
IsSmall(x) == \A i \in Limbs : i > 1 => x[i] = 0

(* x < n and x > n, for 0 <= n < LimbBase. *)
LessThan(x, n) == IsNegative(x) \/ (IsSmall(x) /\ x[1] < n)
GreaterThan(x, n) == ~IsNegative(x) /\ (~IsSmall(x) \/ x[1] > n)

(* x - 1. *)
MinusOne(x) ==
    IF \A i \in Limbs : x[i] = 0 THEN [i \in Limbs |-> LimbBase - 1]
    ELSE LET j == CHOOSE k \in Limbs : x[k] # 0 /\ \A i \in Limbs : i < k => x[i] = 0
         IN [i \in Limbs |-> IF i < j THEN LimbBase - 1
                             ELSE IF i = j THEN x[i] - 1 ELSE x[i]]

(* The carry into limb i of x * n. *)
RECURSIVE Carry(_, _, _)
Carry(x, n, i) ==
    IF i = 1 THEN 0 ELSE (x[i - 1] * n + Carry(x, n, i - 1)) \div LimbBase

(* x * n for 0 <= n <= MaxPageSize: the low IntBits bits of the product. *)
Times(x, n) == [i \in Limbs |-> (x[i] * n + Carry(x, n, i)) % LimbBase]

(* The page and page_size parameters a client may send. *)
PageInputs ==
    {GoInt(0 - 1), GoInt(0), GoInt(1), GoInt(2), GoInt(3),
     [i \in Limbs |-> IF i = 1 THEN 1 ELSE IF i = Top THEN LimbBase \div 4 ELSE 0],
     MaxInt, MinInt}
PageSizeInputs ==
    {GoInt(0 - 1), GoInt(0), GoInt(1), GoInt(2), GoInt(4), GoInt(DefaultPageSize),
     GoInt(MaxPageSize), GoInt(MaxPageSize + 1), MaxInt}

(* models.ValidateAndSetDefaults (pagination.go 27-37). *)
ValidateAndSetDefaults(page, pageSize) ==
    [page |-> IF LessThan(page, 1) THEN GoInt(1) ELSE page,
     pageSize |-> IF LessThan(pageSize, 1) THEN GoInt(DefaultPageSize)
                  ELSE IF GreaterThan(pageSize, MaxPageSize) THEN GoInt(MaxPageSize)
                  ELSE pageSize]

(* models.CalculateOffset (pagination.go 40-42); the page size is within   *)
(* 1 .. MaxPageSize where it is called.                                    *)
CalculateOffset(page, pageSize) == Times(MinusOne(page), pageSize[1])

(* The rows of "ORDER BY id DESC LIMIT limit OFFSET offset" over total     *)
(* rows, for an offset that is not negative.                               *)
RowsReturned(total, limit, offset) ==
    IF ~IsSmall(offset) \/ offset[1] >= total THEN 0
    ELSE IF total - offset[1] < limit THEN total - offset[1] ELSE limit

(* models.NewPaginationResult (pagination.go 12-24). *)
NewPaginationResult(page, pageSize, totalCount) ==
    [page |-> page,
     pageSize |-> pageSize,
     totalCount |-> totalCount,
     totalPages |-> (totalCount \div pageSize[1])
                        + (IF totalCount % pageSize[1] > 0 THEN 1 ELSE 0)]

(* campaignRepository.List: normalise its copy of the filter, count, then  *)
(* query one page (part_006 129-199). PostgreSQL rejects a negative        *)
(* OFFSET, and the service returns that error (campaign_service.go         *)
(* 106-109).                                                               *)
ListRepository ==
    /\ call.op = "List"
    /\ call.pc = "called"
    /\ LET filter == ValidateAndSetDefaults(call.page, call.pageSize)
           offset == CalculateOffset(filter.page, filter.pageSize)
       IN call' = IF IsNegative(offset)
                  THEN [call EXCEPT !.pc = "returned", !.err = "error"]
                  ELSE [call EXCEPT !.pc = "listed",
                                    !.items = RowsReturned(call.total,
                                                           filter.pageSize[1], offset)]
    /\ UNCHANGED <<cstatus, msgs, queue, sends, cons, handlers, lastResult, ctxDone,
                   faults, requeues, requests, maxRetries, concurrencyCfg>>

(* campaignService.List after the repository returned: normalise the       *)
(* filter again and build the pagination (campaign_service.go 111-119).    *)
ListPaginate ==
    /\ call.op = "List"
    /\ call.pc = "listed"
    /\ LET filter == ValidateAndSetDefaults(call.page, call.pageSize)
       IN call' = [call EXCEPT !.pc = "returned", !.err = "nil",
                               !.pagination = NewPaginationResult(filter.page,
                                                  filter.pageSize, call.total)]
    /\ UNCHANGED <<cstatus, msgs, queue, sends, cons, handlers, lastResult, ctxDone,
                   faults, requeues, requests, maxRetries, concurrencyCfg>>

InitList ==
    /\ cstatus = [c \in Campaigns |-> CampaignStatusDraft]
    /\ msgs = <<>>
    /\ queue = <<>>
    /\ sends = <<>>
    /\ cons = InitConsumer
    /\ handlers = EmptyBag
    /\ lastResult = "none"
    /\ ctxDone = FALSE
    /\ faults = 0
    /\ requeues = 0
    /\ requests = {}
    /\ maxRetries = DefaultMaxRetryCount
    /\ concurrencyCfg = MaxConcurrency
    /\ \E p \in PageInputs, s \in PageSizeInputs, t \in 0 .. MaxTotal :
        call = [op |-> "List", pc |-> "called", page |-> p, pageSize |-> s, total |-> t,
                err |-> "none", items |-> 0,
                pagination |-> NewPaginationResult(GoInt(1), GoInt(1), 0)]

NextList ==
    \/ ListRepository
    \/ ListPaginate

SpecList == InitList /\ [][NextList]_vars

----------------------------------------------------------------------------
(* Properties *)

(* No store or queue call has failed so far. *)
NoFailureInjected == faults = MaxFaults

NoSendRunning == \A s \in DOMAIN sends : sends[s].pc \in {"idle", "done"}

MsgsOf(c) == {m \in MsgIds : msgs[m].campaign = c}

(* The handler goroutine h takes this step. *)
Stepped(h) == CopiesIn(h, handlers') < CopiesIn(h, handlers)

(* A Process call returns in this step. *)
ProcessReturns == BagCardinality(handlers') < BagCardinality(handlers)

(* C1: sequential idempotency of SendCampaign: a call that starts after a  *)
(* call on the same campaign returned success fails with Conflict, and the *)
(* campaign has the same outbound messages after it as before it.          *)
C1_SequentialIdempotency ==
    \A s \in DOMAIN sends :
        sends[s].afterOk =>
            /\ Created(s) = {}
            /\ sends[s].pc = "done" => sends[s].result = "Conflict"

(* C2: a campaign is dispatched at most once under concurrent requests:    *)
(* of the SendCampaign calls on one campaign at most one persists outbound *)
(* messages (here: even when no store or queue call fails).                *)
C2_DispatchedAtMostOnce ==
    NoFailureInjected =>
        \A s, t \in DOMAIN sends :
            (s # t /\ sends[s].camp = sends[t].camp /\ sends[s].first # 0)
                => sends[t].first = 0

(* C3: completion convergence: once every message of a campaign with at    *)
(* least one message has status sent or failed and no Process call is      *)
(* running, the campaign status is failed if and only if all its messages  *)
(* are failed, and sent otherwise (here: with every SendCampaign call      *)
(* returned and no store or queue failure).                                *)
C3_CompletionConvergence ==
    \A c \in Campaigns :
        (/\ MsgsOf(c) # {}
         /\ \A m \in MsgsOf(c) :
                msgs[m].status \in {MessageStatusSent, MessageStatusFailed}
         /\ handlers = EmptyBag
         /\ NoSendRunning
         /\ NoFailureInjected)
        => IF \A m \in MsgsOf(c) : msgs[m].status = MessageStatusFailed
           THEN cstatus[c] = CampaignStatusFailed
           ELSE cstatus[c] = CampaignStatusSent

(* C4: the orchestrator's write of 'sending' happens before any worker     *)
(* processes a job of that send: whenever a job is in the hands of         *)
(* Process, its campaign is no longer draft or scheduled (here: with no    *)
(* store or queue failure).                                                *)
C4_SendingBeforeProcessing ==
    NoFailureInjected =>
        \A h \in BagToSet(handlers) :
            h.mid \in MsgIds =>
                cstatus[msgs[h.mid].campaign]
                    \notin {CampaignStatusDraft, CampaignStatusScheduled}

(* C5: retry bound: in every reachable state the stored retry counter of   *)
(* every outbound message is at most the configured maximum.               *)
C5_RetryBound ==
    \A m \in MsgIds : msgs[m].retry <= maxRetries

(* The counter of every message starts at 0 and never decreases. *)
CountersStartAtZeroAndGrow ==
    /\ \A m \in MsgIds : msgs'[m].retry >= msgs[m].retry
    /\ \A m \in (1 .. Len(msgs')) \ MsgIds : msgs'[m].retry = 0

(* C6, as claimed: retry monotonicity: every Process call whose delivery   *)
(* attempt failed increases the stored counter of its message by exactly 1 *)
(* in its next step, every other step of a Process call leaves it          *)
(* unchanged, and the counter starts at 0 and never decreases.             *)
C6_RetryMonotonicityAsClaimed ==
    [][/\ CountersStartAtZeroAndGrow
       /\ \A h \in BagToSet(handlers) :
            (Stepped(h) /\ h.mid \in MsgIds) =>
                msgs'[h.mid].retry =
                    msgs[h.mid].retry + (IF h.pc = "increment" THEN 1 ELSE 0)]_vars

(* C6, amended: a Process call whose delivery attempt failed increases the *)
(* stored counter by exactly 1 unless the store rejects the increment; in  *)
(* that case the counter is unchanged and Process returns an error. Every  *)
(* other step of a Process call leaves the counter unchanged, and the      *)
(* counter starts at 0 and never decreases.                                *)
C6_RetryMonotonicity ==
    [][/\ CountersStartAtZeroAndGrow
       /\ \A h \in BagToSet(handlers) :
            (Stepped(h) /\ h.mid \in MsgIds) =>
                IF h.pc # "increment"
                THEN msgs'[h.mid].retry = msgs[h.mid].retry
                ELSE \/ /\ msgs'[h.mid].retry = msgs[h.mid].retry + 1
                        /\ faults' = faults
                     \/ /\ msgs'[h.mid].retry = msgs[h.mid].retry
                        /\ faults' = faults - 1
                        /\ ProcessReturns
                        /\ lastResult' = "error"]_vars

(* C6, witness: a second failed attempt has taken the counter from 1 to 2. *)
C6_Witness ==
    \E h \in BagToSet(handlers) :
        /\ h.pc = "markFailed"
        /\ h.retryCount = 1
        /\ h.incTo = 2
        /\ msgs[h.mid].retry = 2

(* C7: outcome of a failed delivery: when the counter after the increment  *)
(* is at or above the maximum, Process sets status failed with the text    *)
(* 'max retries exceeded: <cause>', runs the aggregation and returns no    *)
(* error; when it is below, Process sets status failed with the raw cause  *)
(* and returns an error (here: when the status write itself succeeds).     *)
C7_FailedDeliveryOutcome ==
    [][\A h \in BagToSet(handlers) :
         /\ (Stepped(h) /\ h.pc = "markFailed" /\ faults' = faults) =>
               /\ msgs'[h.mid].status = MessageStatusFailed
               /\ IF h.incTo >= maxRetries
                  THEN /\ msgs'[h.mid].lastError = "max retries exceeded: send failed"
                       /\ CopiesIn([h EXCEPT !.pc = "aggLoad"], handlers')
                            > CopiesIn([h EXCEPT !.pc = "aggLoad"], handlers)
                  ELSE /\ msgs'[h.mid].lastError = "send failed"
                       /\ ProcessReturns
                       /\ lastResult' = "error"
         /\ (Stepped(h) /\ h.pc \in {"aggLoad", "aggStats", "aggWrite"}
                        /\ ProcessReturns) => lastResult' = "nil"]_vars

(* C8: permanence at the maximum: a job for a message whose retry counter  *)
(* has reached the maximum does not call the delivery sender: no Process   *)
(* call is past its fetch with a row whose counter was at the maximum.     *)
C8_NoDeliveryAtMaximum ==
    \A h \in BagToSet(handlers) :
        h.pc # "fetch" => h.retryCount < maxRetries

(* C9: concurrency bound: the number of handlers that have started and not *)
(* yet finished is at most the effective limit of the Consume call.        *)
C9_ConcurrencyBound ==
    cons.pc # "init" => Running <= cons.concurrency

(* C9, witness: as many handlers as the limit allows are running while the *)
(* consumer holds the next job and waits for a slot.                       *)
C9_Witness ==
    /\ cons.pc = "acquire"
    /\ cons.concurrency = 3
    /\ Running = 3

Min(a, b) == IF a <= b THEN a ELSE b
Max(a, b) == IF a >= b THEN a ELSE b

(* C10: concurrency clamp: for every configured value c, zero and negative *)
(* values included, the effective limit of Consume is min(max(c, 1), 5),   *)
(* and never more than 5 handlers run at once.                             *)
C10_ConcurrencyClamp ==
    cons.pc # "init" =>
        /\ cons.concurrency = Min(Max(concurrencyCfg, 1), 5)
        /\ Running <= 5

(* C10, witness: configured above 5, five handlers run and a sixth job     *)
(* waits for a slot.                                                       *)
C10_Witness ==
    /\ concurrencyCfg > 5
    /\ cons.pc = "acquire"
    /\ Running = 5

(* C11: drain on shutdown: Consume has returned only in states where every  *)
(* handler it dispatched has finished, on both cancellation paths.         *)
C11_DrainOnShutdown ==
    cons.pc = "done" =>
        /\ cons.via \in {"select", "dequeue"}
        /\ cons.ret = "canceled"
        /\ Running = 0

(* C11, witness: the cancellation surfaced as BRPOP's error while two or   *)
(* more handlers were running, and Consume has returned.                   *)
C11_Witness ==
    /\ cons.pc = "done"
    /\ cons.via = "dequeue"
    /\ cons.waited >= 2
    /\ Running = 0

(* C12: cancellation stops new work: once the cancellation signal has been *)
(* raised, Consume removes no further job from the queue (and so starts no *)
(* handler for a job dequeued after the signal).                           *)
C12_CancellationStopsNewWork ==
    [][ctxDone => queue' = queue]_vars

(* C13: failure isolation in the consumer: when a handler returns, with an *)
(* error or without, Consume stays where it is in its loop, the other      *)
(* handlers in flight are untouched, the queue is untouched and exactly    *)
(* the slot of the returning handler is released.                          *)
C13_FailureIsolation ==
    [][\A h \in BagToSet(handlers) :
         (Stepped(h) /\ ProcessReturns) =>
            /\ lastResult' \in {"error", "nil"}
            /\ handlers' = handlers (-) SetToBag({h})
            /\ cons' = [cons EXCEPT !.sem = @ - 1]
            /\ cons'.pc # "done"
            /\ queue' = queue]_vars

(* C13, witness: a handler has returned an error while another handler is  *)
(* still running and the consumer holds the next job.                      *)
C13_Witness ==
    /\ lastResult = "error"
    /\ Running = 1
    /\ cons.sem = 1
    /\ cons.pc = "acquire"

KnownCount(ids) == Cardinality({i \in 1 .. Len(ids) : ids[i] \in Customers})

(* The call s takes its first step in this step. *)
Starts(s) == sends[s].pc = "idle" /\ sends'[s].pc # "idle"

C16_AtomicBatchPersist ==
    [][\A s \in DOMAIN sends :
         (sends[s].pc = "create" /\ sends'[s] # sends[s] /\ faults' = faults - 1) =>
            /\ sends'[s].pc = "done"
            /\ sends'[s].result \notin {"none", "ok"}
            /\ sends'[s].first = 0
            /\ sends'[s].queued = 0
            /\ msgs' = msgs
            /\ queue' = queue
            /\ cstatus' = cstatus]_vars

(* C16, witness: the batch write of a call with two messages has failed;   *)
(* the store and the queue are empty and the campaign can still be sent.   *)
C16_Witness ==
    \E s \in DOMAIN sends :
        /\ sends[s].pc = "done"
        /\ sends[s].result = "Internal"
        /\ Len(sends[s].custs) = 2
        /\ msgs = <<>>
        /\ queue = <<>>
        /\ CanBeSent(cstatus[sends[s].camp])

(* The jobs on the queue for messages of the call s. *)
JobsOf(s) == {i \in DOMAIN queue : queue[i] \in Created(s)}

C19_BestEffortStatusFlip ==
    [][\A s \in DOMAIN sends :
         (sends[s].pc = "status" /\ sends'[s] # sends[s] /\ faults' = faults - 1) =>
            /\ sends'[s].pc = "done"
            /\ sends'[s].result = "ok"
            /\ sends'[s].status = CampaignStatusSending
            /\ sends'[s].queued = sends[s].queued
            /\ msgs' = msgs
            /\ queue' = queue
            /\ cstatus' = cstatus]_vars

(* C19, witness: a call has returned success with status 'sending' and two *)
(* jobs queued while the campaign is still draft or scheduled.             *)
C19_Witness ==
    \E s \in DOMAIN sends :
        /\ sends[s].pc = "done"
        /\ sends[s].result = "ok"
        /\ sends[s].status = CampaignStatusSending
        /\ sends[s].queued = 2
        /\ Cardinality(JobsOf(s)) = 2
        /\ CanBeSent(cstatus[sends[s].camp])

(* C20: scenario, all deliveries fail: with maximum retry count 3 and a    *)
(* sender that always fails, once the rounds of processing and the two     *)
(* re-enqueues of every message are over, every message has retry counter  *)
(* 3 and status failed, and the campaign status is failed.                 *)
C20_AllDeliveriesFail ==
    (RoundOver /\ requeues = 0) =>
        /\ Len(msgs) = ScenarioMessages
        /\ \A m \in MsgIds :
            /\ msgs[m].retry = 3
            /\ msgs[m].status = MessageStatusFailed
        /\ \A c \in Campaigns : cstatus[c] = CampaignStatusFailed

(* C20, witness: the third round is over for all the messages. *)
C20_Witness ==
    /\ RoundOver
    /\ requeues = 0
    /\ Len(msgs) = ScenarioMessages
    /\ \A m \in MsgIds : msgs[m].retry = 3
    /\ cons.concurrency = MaxConcurrency

----------------------------------------------------------------------------
(* C21: the aggregation rule. A run of updateCampaignStatusIfComplete that *)
(* reads the counts {pending, sent, failed} leaves the campaign status     *)
(* unchanged when pending > 0; when pending = 0 it sets the status to      *)
(* failed if failed > 0 and sent = 0, and to sent otherwise; and it makes  *)
(* no store write when the computed status equals the status it read. A   *)
(* run whose read of the counts fails decides nothing, and a write the     *)
(* store rejects is only logged: both leave the status as it was.          *)
C21_AggregationRule ==
    [][\A h \in BagToSet(handlers) :
        Stepped(h) =>
          LET c == msgs[h.mid].campaign
              pending == CountStatus(c, MessageStatusPending)
              sent == CountStatus(c, MessageStatusSent)
              failed == CountStatus(c, MessageStatusFailed)
              computed == IF failed > 0 /\ sent = 0 THEN CampaignStatusFailed
                          ELSE CampaignStatusSent
          IN /\ h.pc = "aggStats" =>
                  /\ cstatus' = cstatus
                  /\ IF faults' # faults \/ pending > 0 \/ h.campStatus = computed
                     THEN ProcessReturns /\ lastResult' = "nil"
                     ELSE [h EXCEPT !.pc = "aggWrite", !.campStatus = "none",
                                    !.newStatus = computed] \in BagToSet(handlers')
             /\ h.pc = "aggWrite" =>
                  /\ cstatus' = IF faults' = faults
                                THEN [cstatus EXCEPT ![c] = h.newStatus]
                                ELSE cstatus
                  /\ ProcessReturns
    ]_vars

(* A run that found one message sent and one failed for good, none         *)
(* pending, and is about to write the status it computed.                  *)
C21_Witness ==
    \E h \in BagToSet(handlers) :
        /\ h.pc = "aggWrite"
        /\ h.newStatus = CampaignStatusSent
        /\ CountStatus(msgs[h.mid].campaign, MessageStatusFailed) > 0
        /\ CountStatus(msgs[h.mid].campaign, MessageStatusSent) > 0
        /\ CountStatus(msgs[h.mid].campaign, MessageStatusPending) = 0

----------------------------------------------------------------------------
(* The Process call h, whose sender call succeeded, goes through the       *)
(* aggregation without calling the sender again and returns no error.      *)
AggregatesAndReturnsNil(h) ==
    h.pc \in {"aggLoad", "aggStats", "aggWrite"} =>
        /\ msgs' = msgs
        /\ \/ ProcessReturns /\ lastResult' = "nil"
           \/ \E g \in BagToSet(handlers') :
                /\ CopiesIn(g, handlers') > CopiesIn(g, handlers)
                /\ g.mid = h.mid
                /\ g.pc \in {"aggStats", "aggWrite"}

(* C22, as claimed: successful delivery: when the message, its campaign    *)
(* and its customer exist and the sender succeeds, Process calls the       *)
(* sender exactly once, sets the message status to sent with a null last   *)
(* error, then runs the campaign aggregation, and returns no error.        *)
C22_SuccessfulDeliveryAsClaimed ==
    [][\A h \in BagToSet(handlers) :
        Stepped(h) =>
            /\ h.pc = "markSent" =>
                 /\ msgs' = [msgs EXCEPT ![h.mid].status = MessageStatusSent,
                                         ![h.mid].lastError = NoError]
                 /\ [h EXCEPT !.pc = "aggLoad"] \in BagToSet(handlers')
                 /\ ~ProcessReturns
            /\ AggregatesAndReturnsNil(h)
    ]_vars

(* C22, amended: after the one successful sender call Process sets the     *)
(* message status to sent with a null last error, runs the campaign        *)
(* aggregation and returns no error, unless the store rejects the status   *)
(* write: then Process returns an error, the message is unchanged and the  *)
(* aggregation is not run.                                                 *)
C22_SuccessfulDelivery ==
    [][\A h \in BagToSet(handlers) :
        Stepped(h) =>
            /\ h.pc = "markSent" =>
                 \/ /\ faults' = faults
                    /\ msgs' = [msgs EXCEPT ![h.mid].status = MessageStatusSent,
                                            ![h.mid].lastError = NoError]
                    /\ [h EXCEPT !.pc = "aggLoad"] \in BagToSet(handlers')
                    /\ ~ProcessReturns
                 \/ /\ faults' = faults - 1
                    /\ msgs' = msgs
                    /\ ProcessReturns
                    /\ lastResult' = "error"
            /\ AggregatesAndReturnsNil(h)
    ]_vars

(* C22, witness: a message that failed before is delivered on a later      *)
(* attempt: it is sent, its error is cleared and the aggregation runs.     *)
C22_Witness ==
    \E h \in BagToSet(handlers) :
        /\ h.pc = "aggLoad"
        /\ h.retryCount > 0
        /\ msgs[h.mid].status = MessageStatusSent
        /\ msgs[h.mid].lastError = NoError

----------------------------------------------------------------------------
----------------------------------------------------------------------------
(* The status changes a campaign may make. *)
CampaignLifecycle ==
    {<<CampaignStatusDraft, CampaignStatusSending>>,
     <<CampaignStatusScheduled, CampaignStatusSending>>,
     <<CampaignStatusSending, CampaignStatusSent>>,
     <<CampaignStatusSending, CampaignStatusFailed>>}

(* C24: campaign lifecycle: a campaign's status changes only draft ->      *)
(* sending, scheduled -> sending, sending -> sent and sending -> failed;   *)
(* it never leaves sent or failed, never returns to sending and never goes *)
(* from draft or scheduled directly to sent or failed.                     *)
C24_CampaignLifecycle ==
    [][\A c \in Campaigns :
        cstatus'[c] # cstatus[c] => <<cstatus[c], cstatus'[c]>> \in CampaignLifecycle
    ]_vars

----------------------------------------------------------------------------
(* C25: a campaign does not stay 'sending' after its work is done: after a *)
(* SendCampaign call whose enqueues all succeeded, once the queue holds no *)
(* job of that campaign and no handler for it is running, the campaign     *)
(* status is sent or failed (here: with every SendCampaign call returned   *)
(* and no store or queue call failed).                                     *)
C25_NoCampaignLeftSending ==
    \A s \in DOMAIN sends :
        ( /\ NoFailureInjected
          /\ NoSendRunning
          /\ sends[s].pc = "done"
          /\ sends[s].result = "ok"
          /\ sends[s].queued = Cardinality(Created(s))
          /\ \A i \in DOMAIN queue : queue[i] \notin MsgsOf(sends[s].camp)
          /\ cons.job = 0
          /\ handlers = EmptyBag )
        => cstatus[sends[s].camp] \in {CampaignStatusSent, CampaignStatusFailed}

----------------------------------------------------------------------------
(* The value of the attribute a placeholder names. *)
AttributeOf(customer, piece) ==
    CASE piece = "{first_name}" -> customer.FirstName
      [] piece = "{last_name}" -> customer.LastName
      [] piece = "{location}" -> customer.Location
      [] piece = "{preferred_product}" -> customer.PreferredProduct
      [] piece = "{phone}" -> customer.Phone

AttributePlaceholders ==
    {"{first_name}", "{last_name}", "{location}", "{preferred_product}", "{phone}"}

(* The template with every attribute placeholder replaced by the           *)
(* customer's value and every piece of `dropped` removed.                  *)
RECURSIVE Substituted(_, _, _)
Substituted(template, customer, dropped) ==
    IF template = <<>> THEN <<>>
    ELSE LET piece == Head(template)
             out == IF piece \in AttributePlaceholders THEN AttributeOf(customer, piece)
                    ELSE IF piece \in dropped THEN "" ELSE piece
         IN (IF out = "" THEN <<>> ELSE <<out>>)
                \o Substituted(Tail(template), customer, dropped)

(* C26, as claimed: missing-field rendering: for every template and every  *)
(* non-nil customer, with any combination of empty and non-empty           *)
(* attributes, Render returns no error and its result is the template with *)
(* each of the five attribute placeholders replaced by the customer's      *)
(* value of that attribute (the empty string when the attribute is empty). *)
C26_MissingFieldRenderingAsClaimed ==
    (call.op = "Render" /\ call.pc = "returned" /\ call.customer # NilCustomer) =>
        /\ call.result.err = "nil"
        /\ call.result.text = Substituted(call.template, call.customer, {})

(* C26, amended: Render returns no error and its result is the template    *)
(* with each of the five attribute placeholders replaced by the customer's *)
(* value (the empty string when the attribute is empty) and with every     *)
(* other placeholder of the form {name}, name made of lower-case letters   *)
(* and underscores, replaced by the empty string.                          *)
C26_MissingFieldRendering ==
    (call.op = "Render" /\ call.pc = "returned" /\ call.customer # NilCustomer) =>
        /\ call.result.err = "nil"
        /\ call.result.text = Substituted(call.template, call.customer, {"{coupon}"})

(* C26, witness: a template with the phone placeholder and an unknown      *)
(* placeholder has been rendered for a customer who has a phone and no     *)
(* first name.                                                             *)
C26_Witness ==
    /\ call.op = "Render"
    /\ call.pc = "returned"
    /\ call.template = <<"{phone}", "{coupon}">>
    /\ call.customer # NilCustomer
    /\ call.customer.FirstName = ""
    /\ call.result = [text |-> <<"+254700000001">>, err |-> "nil"]

----------------------------------------------------------------------------
(* The number of items of page `page` (at least 1) of `total` items in     *)
(* pages of `size`: min(size, max(0, total - (page - 1) * size)). A page   *)
(* beyond LimbBase lies beyond every total up to MaxTotal.                 *)
ItemsOnPage(page, size, total) ==
    IF ~IsSmall(page) THEN 0
    ELSE Min(size, Max(0, total - (page[1] - 1) * size))

(* C27: pagination normalisation: for every requested page, page size and  *)
(* total count, the list result uses page' = max(page, 1) and size' = 20   *)
(* if size < 1, 100 if size > 100, else size; it reports page', size', the *)
(* total count and total pages = ceil(total / size'), and returns          *)
(* min(size', max(0, total - (page' - 1) * size')) items.                  *)
C27_PaginationNormalisation ==
    (call.op = "List" /\ call.pc = "returned") =>
        LET page == IF LessThan(call.page, 1) THEN GoInt(1) ELSE call.page
            size == IF LessThan(call.pageSize, 1) THEN DefaultPageSize
                    ELSE IF GreaterThan(call.pageSize, MaxPageSize) THEN MaxPageSize
                    ELSE call.pageSize[1]
        IN /\ call.err = "nil"
           /\ call.pagination.page = page
           /\ call.pagination.pageSize = GoInt(size)
           /\ call.pagination.totalCount = call.total
           /\ call.pagination.totalPages = (call.total + size - 1) \div size
           /\ call.items = ItemsOnPage(page, size, call.total)

----------------------------------------------------------------------------
Rejections == {"InvalidInput", "NotFound", "Conflict"}

(* C28: rejected sends have no effect: every SendCampaign call that        *)
(* returns InvalidInput, NotFound or Conflict leaves the store and the     *)
(* queue unchanged: the step in which it is rejected creates no outbound   *)
(* message, enqueues no job and modifies no campaign status, and it is the *)
(* only step of that call.                                                 *)
C28_RejectedSendsHaveNoEffect ==
    [][\A s \in DOMAIN sends :
        (sends'[s] # sends[s] /\ sends'[s].result \in Rejections) =>
            /\ sends[s].pc = "idle"
            /\ sends'[s].pc = "done"
            /\ sends'[s].first = 0
            /\ sends'[s].queued = 0
            /\ msgs' = msgs
            /\ queue' = queue
            /\ cstatus' = cstatus
    ]_vars

(* C28, witness: a call for a sendable campaign whose recipients are all   *)
(* unknown was rejected, and a call for a campaign already sent was        *)
(* rejected; there is no message and no job.                               *)
C28_Witness ==
    \E s, t \in DOMAIN sends :
        /\ sends[s].pc = "done"
        /\ sends[s].result = "InvalidInput"
        /\ sends[s].ids # <<>>
        /\ sends[s].camp \in Campaigns
        /\ CanBeSent(cstatus[sends[s].camp])
        /\ sends[t].pc = "done"
        /\ sends[t].result \in {"NotFound", "Conflict"}
        /\ msgs = <<>>
        /\ queue = <<>>

----------------------------------------------------------------------------
(* C29: a failure below the retry maximum does not touch the campaign:     *)
(* when handleFailure decides that the maximum is not reached, Process     *)
(* returns its error without running the campaign aggregation, and the     *)
(* campaign status is unchanged, even when the message was the last        *)
(* pending one of its campaign.                                            *)
C29_FailureBelowMaximum ==
    [][\A h \in BagToSet(handlers) :
        (Stepped(h) /\ h.pc = "markFailed" /\ h.retryCount + 1 < maxRetries) =>
            /\ handlers' = handlers (-) SetToBag({h})
            /\ lastResult' = "error"
            /\ cstatus' = cstatus
    ]_vars

(* C29, witness: every message has failed once, below the maximum; none is *)
(* pending, no Process call runs and the campaign is still 'sending'.      *)
C29_Witness ==
    /\ handlers = EmptyBag
    /\ queue = <<>>
    /\ cons.job = 0
    /\ lastResult = "error"
    /\ \A m \in MsgIds : /\ msgs[m].status = MessageStatusFailed
                         /\ msgs[m].retry = 1
                         /\ msgs[m].lastError = CauseText
    /\ Len(msgs) = ScenarioMessages
    /\ \A c \in Campaigns : cstatus[c] = CampaignStatusSending

----------------------------------------------------------------------------
(* C30: message status transitions: an outbound message is created with    *)
(* status pending and retry counter 0; its status only ever changes        *)
(* pending -> sent, pending -> failed or failed -> failed; no message      *)
(* returns to pending, and a message whose status is sent never changes    *)
(* status again.                                                           *)
C30_MessageStatusTransitions ==
    [][/\ \A m \in (1 .. Len(msgs')) \ MsgIds :
            msgs'[m].status = MessageStatusPending /\ msgs'[m].retry = 0
       /\ \A m \in MsgIds :
            msgs'[m].status # msgs[m].status =>
                /\ msgs[m].status = MessageStatusPending
                /\ msgs'[m].status \in {MessageStatusSent, MessageStatusFailed}
    ]_vars

----------------------------------------------------------------------------
(* C31: dequeue errors do not stop the consumer: when a dequeue fails with *)
(* an error other than cancellation, or returns empty on timeout, Consume  *)
(* does not return and dispatches no handler for that iteration; it is     *)
(* back at the top of the loop, where the select re-checks cancellation    *)
(* before the next dequeue.                                                *)
C31_DequeueErrorsDoNotStop ==
    [][(/\ cons.pc = "pop"
        /\ cons'.pc \notin {"pop", "drain"}
        /\ (faults' = faults - 1 \/ queue = <<>>))
       => /\ cons' = [cons EXCEPT !.pc = "loop"]
          /\ cons'.ret = "none"
          /\ cons'.job = 0
          /\ handlers' = handlers
          /\ queue' = queue
    ]_vars

(* C31, witness: the first dequeue failed, and the consumer has dequeued   *)
(* the first job after it.                                                 *)
C31_Witness ==
    /\ faults = MaxFaults - 1
    /\ cons.pc = "acquire"
    /\ cons.job = 1
    /\ cons.ret = "none"
    /\ handlers = EmptyBag

----------------------------------------------------------------------------
(* C32: FIFO dispatch: with a single consumer, jobs are removed from the   *)
(* queue and their handlers are started in the order in which the jobs     *)
(* were enqueued: an enqueue puts its job behind every job waiting, the    *)
(* consumer removes the job that waited longest, and it starts the handler *)
(* of the job it removed before it removes the next one. When handlers     *)
(* return is not constrained.                                              *)
C32_FifoDispatch ==
    [][/\ queue' # queue =>
            \/ /\ Len(queue') > Len(queue)
               /\ SubSeq(queue', 1, Len(queue)) = queue
               /\ cons'.job = cons.job
            \/ /\ queue # <<>>
               /\ queue' = Tail(queue)
               /\ cons.job = 0
               /\ cons'.job = Head(queue)
       /\ \A h \in BagToSet(handlers') :
            (h.pc = "fetch" /\ CopiesIn(h, handlers') > CopiesIn(h, handlers)) =>
                /\ h.mid = cons.job
                /\ cons'.job = 0
                /\ queue' = queue
    ]_vars

(* C32, witness: the jobs of messages 1 and 2 were enqueued in this order  *)
(* by one call; the handler of job 1 has started, the consumer holds job 2 *)
(* and a job enqueued later still waits.                                   *)
C32_Witness ==
    /\ \E h \in BagToSet(handlers) : h.mid = 1
    /\ BagCardinality(handlers) = 1
    /\ cons.job = 2
    /\ queue # <<>>
    /\ \E s \in DOMAIN sends : sends[s].first = 1 /\ Len(sends[s].custs) = 2

----------------------------------------------------------------------------
(* C33: content is rendered once: the rendered content of an outbound      *)
(* message is fixed when SendCampaign creates it, as the campaign's        *)
(* template rendered for the customer, and is never modified afterwards;   *)
(* every delivery attempt passes the sender exactly the campaign's         *)
(* channel, the customer's phone and that stored content.                  *)
C33_ContentRenderedOnce ==
    [][/\ \A m \in MsgIds : msgs'[m].content = msgs[m].content
       /\ \A m \in (1 .. Len(msgs')) \ MsgIds :
            msgs'[m].content =
                Substituted(BaseTemplate(msgs'[m].campaign),
                            CustomerRow(msgs'[m].customer), {"{coupon}"})
       /\ \A h \in BagToSet(handlers) :
            (Stepped(h) /\ h.pc = "fetch" /\ ~ProcessReturns) =>
                \E g \in BagToSet(handlers') :
                    /\ CopiesIn(g, handlers') > CopiesIn(g, handlers)
                    /\ g.mid = h.mid
                    /\ g.sent.channel = Channel(msgs[h.mid].campaign)
                    /\ g.sent.phone = CustomerRow(msgs[h.mid].customer).Phone
                    /\ g.sent.content = msgs'[h.mid].content
       /\ \A h \in BagToSet(handlers) :
            (Stepped(h) /\ h.pc # "fetch" /\ ~ProcessReturns) =>
                \E g \in BagToSet(handlers') :
                    /\ CopiesIn(g, handlers') > CopiesIn(g, handlers)
                    /\ g.sent = h.sent
    ]_vars

(* C33, witness: the second delivery attempt of a message that failed once *)
(* has called the sender with the content rendered when the message was    *)
(* created.                                                                *)
C33_Witness ==
    \E h \in BagToSet(handlers) :
        /\ h.pc = "markSent"
        /\ h.retryCount = 1
        /\ msgs[h.mid].status = MessageStatusFailed
        /\ msgs[h.mid].customer = 1
        /\ h.sent = [channel |-> "sms", phone |-> "+254700000001",
                     content |-> <<"Hi ", "Alice", "Tea">>]

(* C34: Consume terminates after cancellation: with every dispatched        *)
(* handler eventually returning, once the cancellation signal is raised     *)
(* Consume eventually returns, the drain never blocks for good on the       *)
(* semaphore; it returns the cancellation error, and it has returned only   *)
(* in states where the cancellation signal was raised.                      *)
C34_ConsumeTerminates ==
    /\ ctxDone ~> (cons.pc = "done" /\ cons.ret = "canceled")
    /\ [](cons.pc = "done" => ctxDone /\ cons.ret = "canceled")
    /\ [](cons.pc = "drain" /\ cons.drained < cons.concurrency
            => <>(cons.pc = "drain" /\ cons.drained = cons.concurrency))

(* C34, witness: the cancellation was seen while every slot of the          *)
(* semaphore was taken by a running handler, and Consume has returned after *)
(* the drain took every slot back.                                          *)
C34_Witness ==
    /\ cons.pc = "done"
    /\ cons.ret = "canceled"
    /\ cons.concurrency >= 2
    /\ cons.waited = cons.concurrency
    /\ cons.drained = cons.concurrency
    /\ cons.sem = cons.concurrency
    /\ ctxDone

InQueue(j) == \E i \in DOMAIN queue : queue[i] = j

HandlerStarted(j) == \E h \in BagToSet(handlers) : h.mid = j /\ h.pc = "fetch"

(* C35: every enqueued job is eventually handled: under a fair scheduler,   *)
(* a job that is in the queue is eventually dequeued and its handler        *)
(* started, unless the consumer is cancelled; this also when every slot of  *)
(* the semaphore is taken and when the producer never stops appending.      *)
C35_EveryJobHandled ==
    \A j \in 1 .. QueueJobs : InQueue(j) ~> (HandlerStarted(j) \/ ctxDone)

(* C35, witness: with one slot, the handler of a job has been started while *)
(* another handler's job was enqueued again behind a third one, and nothing *)
(* was cancelled.                                                            *)
C35_Witness ==
    /\ ~ctxDone
    /\ cons.concurrency = 1
    /\ HandlerStarted(3)
    /\ queue = <<2, 1>>
    /\ cons.pc = "loop"

AwaitingPublish(m) ==
    \E s \in DOMAIN sends :
        /\ sends[s].pc = "publish"
        /\ m >= sends[s].first + sends[s].idx - 1
        /\ m <= sends[s].first + Len(sends[s].custs) - 1

(* C36: no lost work: every message with status pending has a job that is   *)
(* in the queue, held by the consumer or being handled, or belongs to a     *)
(* SendCampaign call that has not reached its job in the publish loop yet.  *)
C36_NoLostWork ==
    \A m \in MsgIds :
        msgs[m].status = MessageStatusPending
            => \/ InQueue(m)
               \/ cons.job = m
               \/ \E h \in BagToSet(handlers) : h.mid = m
               \/ AwaitingPublish(m)

(* C37: one message per recipient: a campaign has at most one outbound      *)
(* message per customer, whatever SendCampaign calls were made and also     *)
(* when a recipient list names a customer more than once.                   *)
C37_OneMessagePerRecipient ==
    \A m1, m2 \in MsgIds :
        (msgs[m1].campaign = msgs[m2].campaign /\ msgs[m1].customer = msgs[m2].customer)
            => m1 = m2

(* C38: the terminal decision agrees with the stored counter: when a        *)
(* handleFailure run has written the failure, the message carries the 'max  *)
(* retries exceeded' text and the aggregation is run if and only if the     *)
(* stored retry counter is at or above the maximum, also with two Process   *)
(* calls for one message running concurrently.                              *)
C38_TerminalDecisionAgrees ==
    [][\A h \in BagToSet(handlers) :
         (Stepped(h) /\ h.pc = "markFailed" /\ faults' = faults) =>
            LET aggregates == CopiesIn([h EXCEPT !.pc = "aggLoad"], handlers')
                                > CopiesIn([h EXCEPT !.pc = "aggLoad"], handlers)
            IN (msgs'[h.mid].lastError = MaxRetriesText /\ aggregates)
                 <=> msgs'[h.mid].retry >= maxRetries]_vars

(* C39: counter and status move together: a message with status pending    *)
(* has retry counter 0, also when the status write after the increment      *)
(* fails; the states in which a handleFailure run for the message stands    *)
(* between its increment and its status write are left aside.               *)
C39_PendingHasZeroCounter ==
    \A m \in MsgIds :
        (/\ msgs[m].status = MessageStatusPending
         /\ ~\E h \in BagToSet(handlers) : h.mid = m /\ h.pc = "markFailed")
            => msgs[m].retry = 0

OwnMessages(h) == {m \in MsgIds : msgs[m].campaign = msgs[h.mid].campaign}

OwnFinalStatus(h) ==
    IF /\ \E m \in OwnMessages(h) : msgs[m].status = MessageStatusFailed
       /\ ~\E m \in OwnMessages(h) : msgs[m].status = MessageStatusSent
    THEN CampaignStatusFailed
    ELSE CampaignStatusSent

(* C40: campaign isolation: a step of a Process call for a message of       *)
(* campaign A changes no other message and no other campaign's status, and  *)
(* what it reads for the campaign decision is the status of campaign A and  *)
(* the statuses of the messages of campaign A alone.                        *)
C40_CampaignIsolation ==
    [][\A h \in BagToSet(handlers) :
         Stepped(h) =>
            LET a == msgs[h.mid].campaign
            IN /\ \A m \in MsgIds \ {h.mid} : msgs'[m] = msgs[m]
               /\ Len(msgs') = Len(msgs)
               /\ \A c \in DOMAIN cstatus \ {a} : cstatus'[c] = cstatus[c]
               /\ DOMAIN cstatus' = DOMAIN cstatus
               /\ h.pc # "aggWrite" => cstatus'[a] = cstatus[a]
               /\ (h.pc = "aggWrite" /\ faults' = faults) => cstatus'[a] = h.newStatus
               /\ (h.pc = "aggLoad" /\ faults' = faults) =>
                     \E g \in BagToSet(handlers') :
                         g.mid = h.mid /\ g.pc = "aggStats" /\ g.campStatus = cstatus[a]
               /\ (h.pc = "aggStats" /\ faults' = faults) =>
                     IF \/ \E m \in OwnMessages(h) : msgs[m].status = MessageStatusPending
                        \/ h.campStatus = OwnFinalStatus(h)
                     THEN ProcessReturns
                     ELSE \E g \in BagToSet(handlers') :
                              /\ g.mid = h.mid
                              /\ g.pc = "aggWrite"
                              /\ g.newStatus = OwnFinalStatus(h)]_vars

(* C40, witness: the only message of campaign 2 has failed for good while   *)
(* campaign 1 has a sent message; the call for it has set campaign 2 to     *)
(* failed and left campaign 1, still being sent, as it was.                 *)
C40_Witness ==
    /\ Len(msgs) >= 3
    /\ msgs[2].campaign = 2
    /\ msgs[2].status = MessageStatusFailed
    /\ msgs[2].lastError = MaxRetriesText
    /\ msgs[1].campaign = 1
    /\ msgs[1].status = MessageStatusSent
    /\ msgs[3].status = MessageStatusPending
    /\ cstatus[2] = CampaignStatusFailed
    /\ cstatus[1] = CampaignStatusSending
    /\ handlers = EmptyBag

====
